---- MODULE Spec2Model ----
(***************************************************************************)
(* Model of the research agent graph of backend/src/agent/graph.py:        *)
(* generate_query -> {web_research, knowledge_base_research}* ->           *)
(* reflection -> (another round | finalize_answer) -> END.                 *)
(* Texts are sequences of tokens; a token is a word, a raw source          *)
(* identity (URL, document path, document content) or a citation marker.   *)
(***************************************************************************)
EXTENDS Integers, Sequences, FiniteSets, TLC

\* ---------------------------------------------------------------- bounds
\* queries the judgment calls issue in one run: the query lists they return
\* are as long as this budget allows
MaxTotalQueries == 2
\* largest max_research_loops value explored
MaxLoops == 2
\* longest conversation history get_research_topic is applied to
MaxMessages == 3
\* most documents a vector-database response holds
MaxDocuments == 3
\* knowledge-base tasks that share the tunnel manager in one round
MaxTasks == 2
\* longest list of grounding URLs resolve_urls is applied to
MaxUrls == 3
\* largest id argument of resolve_urls
MaxId == 2
\* longest text insert_citation_markers is applied to
MaxTextLen == 2
\* longest citation list insert_citation_markers is applied to
MaxCitations == 2
\* longest content validate_citations_in_content is applied to, in words
MaxContentLen == 3
\* longest source list validate_citations_in_content is applied to
MaxSources == 2

None == "None"
NoResult == [pending |-> TRUE]

\* ------------------------------------------------- retrieval backend data
\* one item of a custom-search response: its link ("" when absent) and the
\* tokens of its snippet (which may or may not quote the link)
WebItem(link, snippet) == [link |-> link, snippet |-> snippet]

WebResponses ==
    { << WebItem("u1", <<"w", "u1">>) >>,
      << WebItem("u2", <<"w">>), WebItem("u1", <<"u1">>) >>,
      << WebItem("", <<"w">>) >> }

\* one document of a vector-database response
KBDoc(source, content) == [source |-> source, content |-> content]

KBResponses ==
    { << >>,
      << KBDoc("d1", "c1") >>,
      << KBDoc("d2", "c1"), KBDoc("d1", "c2") >> }

\* what the knowledge-base adapter can meet: the tunnel cannot be ensured,
\* the client reports a timeout, the client reports another error (or an
\* unexpected exception is caught), or documents come back
KBOutcomes ==
    { [kind |-> "tunnel_failed", documents |-> << >>],
      [kind |-> "timeout", documents |-> << >>],
      [kind |-> "error", documents |-> << >>] }
    \cup { [kind |-> "ok", documents |-> d] : d \in KBResponses }

\* ------------------------------------------------------------ text helpers
\* str.replace(old, new) on a token text: every occurrence of the token old
\* becomes the tokens new; as in Python, an empty old matches before every
\* token and at the end of the text
RECURSIVE Replace(_, _, _)
Replace(text, old, new) ==
    IF old = ""
    THEN IF text = << >> THEN new
         ELSE new \o << Head(text) >> \o Replace(Tail(text), old, new)
    ELSE IF text = << >> THEN << >>
         ELSE (IF Head(text) = old THEN new ELSE << Head(text) >>)
              \o Replace(Tail(text), old, new)

\* "\n".join(snippets)
RECURSIVE JoinSnippets(_)
JoinSnippets(items) ==
    IF items = << >> THEN << >>
    ELSE IF Len(items) = 1 THEN Head(items).snippet
    ELSE Head(items).snippet \o << "\n" >> \o JoinSnippets(Tail(items))

\* f"[{idx}]" and f"[KB-{idx + 1}]" (idx is Python's 0-based enumerate index)
WebShortUrl(idx) == "[" \o ToString(idx) \o "]"
\* knowledge-base markers numbered from 0
KBShortUrl_ZeroBased(idx) == "[KB-" \o ToString(idx) \o "]"

KBShortUrl(idx) == "[KB-" \o ToString(idx + 1) \o "]"

Source(value, short_url) == [value |-> value, short_url |-> short_url]


\* ------------------------------------------------------------ web_research
\* the sources loop of web_research with the replacement dedented out of
\* "if link:"
RECURSIVE WebSourcesLoop_ReplaceOutsideGuard(_, _, _, _)
WebSourcesLoop_ReplaceOutsideGuard(items, idx, sources, text) ==
    IF items = << >> THEN [sources |-> sources, text |-> text]
    ELSE LET link == Head(items).link
             short_url == WebShortUrl(idx)
         IN WebSourcesLoop_ReplaceOutsideGuard(Tail(items), idx + 1,
                IF link # "" THEN Append(sources, Source(link, short_url))
                             ELSE sources,
                Replace(text, link, << short_url >>))

\* the loop "for idx, item in enumerate(search_results)": a source entry and
\* a replacement of the link by its short_url for every item that has a link
RECURSIVE WebSourcesLoop(_, _, _, _)
WebSourcesLoop(items, idx, sources, text) ==
    IF items = << >> THEN [sources |-> sources, text |-> text]
    ELSE LET link == Head(items).link
             short_url == WebShortUrl(idx)
         IN IF link # ""
            THEN WebSourcesLoop(Tail(items), idx + 1,
                                Append(sources, Source(link, short_url)),
                                Replace(text, link, << short_url >>))
            ELSE WebSourcesLoop(Tail(items), idx + 1, sources, text)

\* a web_research update that leaves out the query it ran
WebResearchReturn_NoQuery(search_query, search_results) ==
    LET done == WebSourcesLoop(search_results, 0, << >>,
                               JoinSnippets(search_results))
    IN [sources_gathered |-> done.sources,
        search_query |-> << >>,
        web_research_result |-> << done.text >>,
        kb_search_status |-> None]

\* the state update web_research returns for a search response
WebResearchReturn(search_query, search_results) ==
    LET done == WebSourcesLoop(search_results, 0, << >>,
                               JoinSnippets(search_results))
    IN [sources_gathered |-> done.sources,
        search_query |-> << search_query >>,
        web_research_result |-> << done.text >>,
        kb_search_status |-> None]

\* ------------------------------------------------- knowledge_base_research
\* the loop "for idx, doc in enumerate(documents)": the document is written
\* into formatted_content, gets a source entry, and every occurrence of its
\* content is replaced by the (truncated) content followed by its marker
RECURSIVE KBDocumentsLoop(_, _, _, _)
KBDocumentsLoop(documents, idx, sources, formatted_content) ==
    IF documents = << >>
    THEN [sources |-> sources, text |-> formatted_content]
    ELSE LET doc == Head(documents)
             written == formatted_content
                        \o << "Document", "Source:", doc.source,
                              "Content:", doc.content >>
         IN KBDocumentsLoop(Tail(documents), idx + 1,
                Append(sources, Source(doc.source, KBShortUrl(idx))),
                Replace(written, doc.content,
                        << doc.content, KBShortUrl(idx) >>))

\* the state update knowledge_base_research returns for each outcome
KBResearchReturn(search_query, outcome) ==
    LET placeholder(text, status) ==
            [sources_gathered |-> << >>,
             search_query |-> << search_query >>,
             web_research_result |-> << << text >> >>,
             kb_search_status |-> status]
    IN CASE outcome.kind = "tunnel_failed" ->
              placeholder("SSH tunnel connection failed", "failed")
         [] outcome.kind = "timeout" ->
              placeholder("Vector database search timed out after 30 seconds",
                          "timeout")
         [] outcome.kind \in { "error", "exception" } ->
              placeholder("Knowledge base search error", "error")
         [] outcome.kind = "ok" /\ outcome.documents = << >> ->
              placeholder("No relevant documents found in knowledge base for this query.",
                          "completed")
         [] OTHER ->
              LET done == KBDocumentsLoop(outcome.documents, 0, << >>,
                              << "Knowledge Base Search Results" >>)
              IN [sources_gathered |-> done.sources,
                  search_query |-> << search_query >>,
                  web_research_result |-> << done.text >>,
                  kb_search_status |-> "completed"]

\* ------------------------------------------------------------ graph routing
Send(node, search_query, id) ==
    [node |-> node, search_query |-> search_query, id |-> id]

\* the initial fan-out with ids idx and idx + 1
RECURSIVE InitialSends_Overlap(_, _)
InitialSends_Overlap(queries, idx) ==
    IF queries = << >> THEN << >>
    ELSE << Send("web_research", Head(queries), idx),
            Send("knowledge_base_research", Head(queries), idx + 1) >>
         \o InitialSends_Overlap(Tail(queries), idx + 1)

\* continue_to_web_research: for idx, search_query in enumerate(query_list),
\* one Send to web_research (id 2*idx) and one to knowledge_base_research
\* (id 2*idx+1)
RECURSIVE InitialSends(_, _)
InitialSends(queries, idx) ==
    IF queries = << >> THEN << >>
    ELSE << Send("web_research", Head(queries), idx * 2),
            Send("knowledge_base_research", Head(queries), idx * 2 + 1) >>
         \o InitialSends(Tail(queries), idx + 1)

continue_to_web_research(queries) == InitialSends(queries, 0)

\* a follow-up fan-out whose ids start again at 0
RECURSIVE FollowUpSends_RestartIds(_, _, _)
FollowUpSends_RestartIds(queries, idx, ran_queries) ==
    IF queries = << >> THEN << >>
    ELSE << Send("web_research", Head(queries), idx * 2),
            Send("knowledge_base_research", Head(queries), idx * 2 + 1) >>
         \o FollowUpSends_RestartIds(Tail(queries), idx + 1, ran_queries)

\* a follow-up fan-out that sends every query to web_research only
RECURSIVE FollowUpSends_WebOnly(_, _, _)
FollowUpSends_WebOnly(queries, idx, ran_queries) ==
    IF queries = << >> THEN << >>
    ELSE << Send("web_research", Head(queries), ran_queries + idx * 2) >>
         \o FollowUpSends_WebOnly(Tail(queries), idx + 1, ran_queries)

\* the else branch of evaluate_research: for idx, follow_up_query in
\* enumerate(follow_up_queries), base_id = number_of_ran_queries + 2*idx
RECURSIVE FollowUpSends(_, _, _)
FollowUpSends(queries, idx, ran_queries) ==
    IF queries = << >> THEN << >>
    ELSE LET base_id == ran_queries + idx * 2
         IN << Send("web_research", Head(queries), base_id),
               Send("knowledge_base_research", Head(queries), base_id + 1) >>
            \o FollowUpSends(Tail(queries), idx + 1, ran_queries)

\* max_research_loops of the state is << >> when absent or None, << n >> else
\* "state.get(...) or configurable...": a state value of 0 falls through
BudgetOf_OrDefault(state_max, configurable_max) ==
    IF state_max # << >> /\ state_max # << 0 >>
    THEN state_max[1] ELSE configurable_max

\* the budget taken from the configuration whatever the state holds
BudgetOf_ConfigOnly(state_max, configurable_max) == configurable_max

\* the round budget evaluate_research uses
BudgetOf(state_max, configurable_max) ==
    IF state_max # << >> THEN state_max[1] ELSE configurable_max

\* evaluate_research with "and" for "or" in its condition
evaluate_research_And(sufficient, loop_count, state_max, config_max, follow_ups, ran) ==
    IF sufficient /\ loop_count >= BudgetOf(state_max, config_max)
    THEN [finalize |-> TRUE, sends |-> << >>]
    ELSE [finalize |-> FALSE,
          sends |-> FollowUpSends(follow_ups, 0, ran)]

\* evaluate_research: "finalize_answer", or the Sends of the next round
evaluate_research(sufficient, loop_count, state_max, config_max, follow_ups, ran) ==
    IF sufficient \/ loop_count >= BudgetOf(state_max, config_max)
    THEN [finalize |-> TRUE, sends |-> << >>]
    ELSE [finalize |-> FALSE,
          sends |-> FollowUpSends(follow_ups, 0, ran)]

\* ------------------------------------------------------------------- state
VARIABLES
    pc,                    \* the node(s) the graph runs next
    failure,               \* the node whose exception aborted the run
    answer,                \* whether finalize_answer's AIMessage was emitted
    tasks,                 \* the Sends of the round in execution
    results,               \* each task's returned update, NoResult before
    query_list,            \* generate_query's output
    search_query,          \* accumulated: one entry per finished task
    web_research_result,   \* accumulated findings
    sources_gathered,      \* accumulated source entries
    research_loop_count,
    is_sufficient,
    follow_up_queries,
    number_of_ran_queries,
    max_research_loops,    \* << >> or << n >>, given by the caller
    configurable_max_research_loops,
    queries_issued,        \* history: queries generated so far
    rounds_started,        \* history: fan-outs executed
    reflections_run,       \* history: reflections completed
    round_queries,         \* history: the query list of the current round
    messages,              \* the conversation history of the state
    topic,                 \* the research topic last put into a prompt
    initial_search_query_count,
    issued_ids,            \* history: the id of every Send, in issue order
    registered,            \* history: the source entries the rounds returned
    out_of_order,          \* history: a task of the round returned before a
                           \* task with a lower id
    call                   \* the call under way when a function, a client
                           \* or the tunnel manager is run on its own

vars == << pc, failure, answer, tasks, results, query_list, search_query,
           web_research_result, sources_gathered, research_loop_count,
           is_sufficient, follow_up_queries, number_of_ran_queries,
           max_research_loops, configurable_max_research_loops,
           queries_issued, rounds_started, reflections_run, round_queries,
           messages, topic, initial_search_query_count, issued_ids,
           registered, out_of_order, call >>

JudgmentCalls == { "generate_query", "reflection", "finalize_answer" }

\* the lists a judgment call can return: n fresh queries, numbered on
NewQueries(n) == [k \in 1..n |-> queries_issued + k]

QueryBudgetLeft == MaxTotalQueries - queries_issued

\* a message of the history: its class and its content
Message(type, content) == [type |-> type, content |-> content]

\* the state a run starts from, but for pc, messages and the round budget
StartState ==
    /\ failure = None
    /\ answer = None
    /\ tasks = << >>
    /\ results = << >>
    /\ query_list = << >>
    /\ search_query = << >>
    /\ web_research_result = << >>
    /\ sources_gathered = << >>
    /\ research_loop_count = 0
    /\ is_sufficient = FALSE
    /\ follow_up_queries = << >>
    /\ number_of_ran_queries = 0
    /\ queries_issued = 0
    /\ rounds_started = 0
    /\ reflections_run = 0
    /\ round_queries = << >>
    /\ topic = << >>
    \* the caller asks for as many initial queries as the budget allows
    /\ initial_search_query_count = MaxTotalQueries
    /\ issued_ids = << >>
    /\ registered = << >>
    /\ out_of_order = FALSE

Init ==
    /\ pc = "generate_query"
    /\ StartState
    /\ call = << >>
    /\ messages = << Message("human", "q") >>
    /\ max_research_loops \in { << >> } \cup { << n >> : n \in 0..MaxLoops }
    /\ configurable_max_research_loops \in 0..MaxLoops
    \* the configured default is read only when the state gives no value:
    \* one default is explored beside every given value
    /\ max_research_loops # << >> => configurable_max_research_loops = MaxLoops


\* ------------------------------------------------------- get_research_topic
\* the body of "for message in messages": a prefixed line for a
\* HumanMessage, for an AIMessage, and nothing for any other message
TopicLine(message) ==
    IF message.type = "human"
    THEN << "User: ", message.content, "\n" >>
    ELSE IF message.type = "ai"
    THEN << "Assistant: ", message.content, "\n" >>
    ELSE << >>

\* the loop of get_research_topic building the topic back to front
RECURSIVE TopicLoop_Prepend(_, _)
TopicLoop_Prepend(msgs, research_topic) ==
    IF msgs = << >> THEN research_topic
    ELSE TopicLoop_Prepend(Tail(msgs), TopicLine(Head(msgs)) \o research_topic)

\* research_topic = ""; for message in messages: research_topic += ...
RECURSIVE TopicLoop(_, _)
TopicLoop(msgs, research_topic) ==
    IF msgs = << >> THEN research_topic
    ELSE TopicLoop(Tail(msgs), research_topic \o TopicLine(Head(msgs)))

get_research_topic(msgs) ==
    IF Len(msgs) = 1 THEN << msgs[Len(msgs)].content >>
    ELSE TopicLoop(msgs, << >>)

\* ----------------------------------------------------------------- reducers
\* the list channels of OverallState (search_query, web_research_result,
\* sources_gathered) accumulate the updates the nodes return
ReducerAdd(old, update) == old \o update

\* the updates of a finished round, applied in task order
\* channels that keep only the update written last
RECURSIVE ApplyWrites_Overwrite(_, _)
ApplyWrites_Overwrite(writes, acc) ==
    IF writes = << >> THEN acc
    ELSE ApplyWrites_Overwrite(Tail(writes),
            [search_query |-> Head(writes).search_query,
             web_research_result |-> Head(writes).web_research_result,
             sources_gathered |-> Head(writes).sources_gathered])

RECURSIVE ApplyWrites(_, _)
ApplyWrites(writes, acc) ==
    IF writes = << >> THEN acc
    ELSE ApplyWrites(Tail(writes),
            [search_query |->
                 ReducerAdd(acc.search_query, Head(writes).search_query),
             web_research_result |->
                 ReducerAdd(acc.web_research_result,
                            Head(writes).web_research_result),
             sources_gathered |->
                 ReducerAdd(acc.sources_gathered,
                            Head(writes).sources_gathered)])

\* ---------------------------------------------------------------- the graph
\* reflection is triggered by a round in which a single task has returned
RoundSettled_AnyTask ==
    \E t \in DOMAIN tasks : results[t] # NoResult

\* the step of the web_research and knowledge_base_research tasks is over:
\* every task of the round has returned
RoundSettled ==
    \A t \in DOMAIN tasks : results[t] # NoResult

\* builder.add_edge("finalize_answer", END)
AfterFinalizeAnswer == "END"

\* the updates of the round, last task first
ReturnedWrites_Reversed ==
    LET returned == SelectSeq(results, LAMBDA r : r # NoResult)
    IN [k \in DOMAIN returned |-> returned[Len(returned) + 1 - k]]

\* the updates the tasks of the round have returned, in task order
ReturnedWrites == SelectSeq(results, LAMBDA r : r # NoResult)

RECURSIVE SourcesOf(_)
SourcesOf(writes) ==
    IF writes = << >> THEN << >>
    ELSE Head(writes).sources_gathered \o SourcesOf(Tail(writes))

IdsOf(sends) == [t \in DOMAIN sends |-> sends[t].id]

\* ------------------------------------------------------------------ actions
\* the exception of node is logged and the run ends as if it had finished
Abort_LogOnly(node) ==
    /\ pc' = "END"
    /\ failure' = node

\* the run aborts with the exception of node
Abort(node) ==
    /\ pc' = "failed"
    /\ failure' = node

\* generate_query followed by its conditional edge continue_to_web_research
\* (the model call either raises or returns at least one query, as the
\* prompt asks for number_queries > 0)
generate_query ==
    /\ pc = "generate_query"
    /\ \/ /\ Abort("generate_query")
          /\ UNCHANGED << answer, tasks, results, query_list, search_query,
                          web_research_result, sources_gathered,
                          research_loop_count, is_sufficient,
                          follow_up_queries, number_of_ran_queries,
                          max_research_loops, configurable_max_research_loops,
                          queries_issued, rounds_started, reflections_run,
                          round_queries, messages, topic,
                          initial_search_query_count, issued_ids,
                          registered, out_of_order, call >>
       \/ \E n \in 1..QueryBudgetLeft :
            LET result == NewQueries(n)
                sends == continue_to_web_research(result)
            IN /\ query_list' = result
               /\ tasks' = sends
               /\ results' = [t \in DOMAIN sends |-> NoResult]
               /\ pc' = "research"
               /\ queries_issued' = queries_issued + n
               /\ rounds_started' = rounds_started + 1
               /\ round_queries' = result
               /\ topic' = get_research_topic(messages)
               /\ issued_ids' = issued_ids \o IdsOf(sends)
               /\ UNCHANGED << out_of_order, call >>
               /\ UNCHANGED << failure, answer, search_query,
                               web_research_result, sources_gathered,
                               research_loop_count, is_sufficient,
                               follow_up_queries, number_of_ran_queries,
                               max_research_loops,
                               configurable_max_research_loops,
                               reflections_run, messages,
                               initial_search_query_count, registered >>

ResearchUnchanged ==
    UNCHANGED << answer, tasks, query_list, search_query, web_research_result,
                 sources_gathered, research_loop_count, is_sufficient,
                 follow_up_queries, number_of_ran_queries, max_research_loops,
                 configurable_max_research_loops, queries_issued,
                 rounds_started, reflections_run, round_queries, messages,
                 topic, initial_search_query_count, issued_ids, registered,
                 call >>

\* task t returns while a task with a lower id is still running
Overtakes(t) == \E u \in DOMAIN tasks : u < t /\ results[u] = NoResult

\* one web_research task: the search raises (and the node re-raises), or a
\* response is processed
web_research(t) ==
    /\ pc = "research"
    /\ t \in DOMAIN tasks
    /\ tasks[t].node = "web_research"
    /\ results[t] = NoResult
    /\ \/ /\ Abort("web_research")
          /\ UNCHANGED << results, out_of_order >>
       \/ \E response \in WebResponses :
            /\ results' = [results EXCEPT
                   ![t] = WebResearchReturn(tasks[t].search_query, response)]
            /\ out_of_order' = (out_of_order \/ Overtakes(t))
            /\ UNCHANGED << pc, failure >>
    /\ ResearchUnchanged

\* one knowledge_base_research task: every outcome returns an update
knowledge_base_research(t) ==
    /\ pc = "research"
    /\ t \in DOMAIN tasks
    /\ tasks[t].node = "knowledge_base_research"
    /\ results[t] = NoResult
    /\ \E outcome \in KBOutcomes :
         results' = [results EXCEPT
             ![t] = KBResearchReturn(tasks[t].search_query, outcome)]
    /\ out_of_order' = (out_of_order \/ Overtakes(t))
    /\ UNCHANGED << pc, failure >>
    /\ ResearchUnchanged

\* the edges web_research -> reflection and knowledge_base_research ->
\* reflection: when every task of the round has returned, their updates are
\* applied and reflection is next
join_round ==
    /\ pc = "research"
    /\ RoundSettled
    /\ registered' = registered \o SourcesOf(ReturnedWrites)
    /\ LET acc == ApplyWrites(ReturnedWrites,
                      [search_query |-> search_query,
                       web_research_result |-> web_research_result,
                       sources_gathered |-> sources_gathered])
       IN /\ search_query' = acc.search_query
          /\ web_research_result' = acc.web_research_result
          /\ sources_gathered' = acc.sources_gathered
    /\ tasks' = << >>
    /\ results' = << >>
    /\ pc' = "reflection"
    /\ UNCHANGED << failure, answer, query_list, research_loop_count,
                    is_sufficient, follow_up_queries, number_of_ran_queries,
                    max_research_loops, configurable_max_research_loops,
                    queries_issued, rounds_started, reflections_run,
                    round_queries, messages, topic,
                    initial_search_query_count, issued_ids, out_of_order,
                    call >>

\* the update reflection returns for a verdict, with a counter that is not
\* incremented
ReflectionReturn_NoIncrement(loop_count, sufficient, follow_ups, queries) ==
    [is_sufficient |-> sufficient,
     follow_up_queries |-> follow_ups,
     research_loop_count |-> loop_count,
     number_of_ran_queries |-> Len(queries)]

\* the update reflection returns for a verdict
ReflectionReturn(loop_count, sufficient, follow_ups, queries) ==
    [is_sufficient |-> sufficient,
     follow_up_queries |-> follow_ups,
     research_loop_count |-> loop_count + 1,
     number_of_ran_queries |-> Len(queries)]

\* reflection followed by its conditional edge evaluate_research
reflection ==
    /\ pc = "reflection"
    /\ \/ /\ Abort("reflection")
          /\ UNCHANGED << answer, tasks, results, query_list, search_query,
                          web_research_result, sources_gathered,
                          research_loop_count, is_sufficient,
                          follow_up_queries, number_of_ran_queries,
                          max_research_loops, configurable_max_research_loops,
                          queries_issued, rounds_started, reflections_run,
                          round_queries, messages, topic,
                          initial_search_query_count, issued_ids,
                          registered, out_of_order, call >>
       \/ \E sufficient \in BOOLEAN,
             n \in 0..QueryBudgetLeft :
            LET update == ReflectionReturn(research_loop_count, sufficient,
                                           NewQueries(n), search_query)
                route == evaluate_research(update.is_sufficient,
                             update.research_loop_count, max_research_loops,
                             configurable_max_research_loops,
                             update.follow_up_queries,
                             update.number_of_ran_queries)
            IN /\ is_sufficient' = update.is_sufficient
               /\ follow_up_queries' = update.follow_up_queries
               /\ research_loop_count' = update.research_loop_count
               /\ number_of_ran_queries' = update.number_of_ran_queries
               /\ reflections_run' = reflections_run + 1
               /\ queries_issued' = queries_issued + n
               /\ topic' = get_research_topic(messages)
               /\ out_of_order' = FALSE
               /\ UNCHANGED call
               /\ IF route.finalize
                  THEN /\ pc' = "finalize_answer"
                       /\ UNCHANGED << tasks, results, rounds_started,
                                       round_queries, issued_ids >>
                  ELSE IF route.sends = << >>
                  \* no Send and no node name: nothing is scheduled and the
                  \* graph run ends
                  THEN /\ pc' = "END"
                       /\ UNCHANGED << tasks, results, rounds_started,
                                       round_queries, issued_ids >>
                  ELSE /\ pc' = "research"
                       /\ tasks' = route.sends
                       /\ results' = [t \in DOMAIN route.sends |-> NoResult]
                       /\ rounds_started' = rounds_started + 1
                       /\ round_queries' = update.follow_up_queries
                       /\ issued_ids' = issued_ids \o IdsOf(route.sends)
               /\ UNCHANGED << failure, answer, query_list, search_query,
                               web_research_result, sources_gathered,
                               max_research_loops,
                               configurable_max_research_loops, messages,
                               initial_search_query_count, registered >>

\* finalize_answer reading the topic from the history its answer is in
finalize_answer_TopicAfterAnswer ==
    /\ pc = "finalize_answer"
    /\ \/ /\ Abort("finalize_answer")
          /\ UNCHANGED << answer, sources_gathered, messages, topic >>
       \/ /\ messages' = ReducerAdd(messages, << Message("ai", "answer") >>)
          /\ topic' = get_research_topic(messages')
          /\ answer' = "AIMessage"
          /\ sources_gathered' = ReducerAdd(sources_gathered, sources_gathered)
          /\ pc' = AfterFinalizeAnswer
          /\ UNCHANGED failure
    /\ UNCHANGED << tasks, results, query_list, search_query,
                    web_research_result, research_loop_count, is_sufficient,
                    follow_up_queries, number_of_ran_queries,
                    max_research_loops, configurable_max_research_loops,
                    queries_issued, rounds_started, reflections_run,
                    round_queries, initial_search_query_count, issued_ids,
                    registered, out_of_order, call >>

\* finalize_answer followed by the edge to END
finalize_answer ==
    /\ pc = "finalize_answer"
    /\ \/ /\ Abort("finalize_answer")
          /\ UNCHANGED << answer, sources_gathered, messages, topic >>
       \/ /\ topic' = get_research_topic(messages)
          /\ answer' = "AIMessage"
          /\ messages' = ReducerAdd(messages, << Message("ai", "answer") >>)
          /\ sources_gathered' = ReducerAdd(sources_gathered, sources_gathered)
          /\ pc' = AfterFinalizeAnswer
          /\ UNCHANGED failure
    /\ UNCHANGED << tasks, results, query_list, search_query,
                    web_research_result, research_loop_count, is_sufficient,
                    follow_up_queries, number_of_ran_queries,
                    max_research_loops, configurable_max_research_loops,
                    queries_issued, rounds_started, reflections_run,
                    round_queries, initial_search_query_count, issued_ids,
                    registered, out_of_order, call >>

Next ==
    \/ generate_query
    \/ \E t \in 1..(2 * MaxTotalQueries) : web_research(t)
    \/ \E t \in 1..(2 * MaxTotalQueries) : knowledge_base_research(t)
    \/ join_round
    \/ reflection
    \/ finalize_answer

Spec == Init /\ [][Next]_vars

\* the graph engine runs every scheduled node
FairSpec == Spec /\ WF_vars(Next)

\* ------------------------------------------- get_research_topic on its own
MessageTypes == { "human", "ai", "system" }

Histories ==
    UNION { [1..n -> { Message(t, c) : t \in MessageTypes, c \in { "a", "b" } }]
              : n \in 0..MaxMessages }

TopicInit ==
    /\ pc = "get_research_topic"
    /\ StartState
    /\ call = << >>
    /\ messages \in Histories
    /\ max_research_loops = << >>
    /\ configurable_max_research_loops = 0

call_get_research_topic ==
    /\ pc = "get_research_topic"
    /\ topic' = get_research_topic(messages)
    /\ pc' = "returned"
    /\ UNCHANGED << failure, answer, tasks, results, query_list, search_query,
                    web_research_result, sources_gathered, research_loop_count,
                    is_sufficient, follow_up_queries, number_of_ran_queries,
                    max_research_loops, configurable_max_research_loops,
                    queries_issued, rounds_started, reflections_run,
                    round_queries, messages, initial_search_query_count,
                    issued_ids, registered, out_of_order, call >>

TopicNext == call_get_research_topic

TopicSpec == TopicInit /\ [][TopicNext]_vars

\* ------------------------------------- functions and clients on their own
\* no graph run is under way
GraphIdle ==
    /\ StartState
    /\ messages = << >>
    /\ max_research_loops = << >>
    /\ configurable_max_research_loops = 0

GraphUnchanged ==
    UNCHANGED << failure, answer, tasks, results, query_list, search_query,
                 web_research_result, sources_gathered, research_loop_count,
                 is_sufficient, follow_up_queries, number_of_ran_queries,
                 max_research_loops, configurable_max_research_loops,
                 queries_issued, rounds_started, reflections_run,
                 round_queries, messages, topic, initial_search_query_count,
                 issued_ids, registered, out_of_order >>

\* ---------------------------------------------- llm.invoke of a judgment
\* ChatOpenAI(..., max_retries=2, ...) in generate_query, reflection and
\* finalize_answer
max_retries == 2

\* the failures of a request the client answers by sending it again, and
\* one it raises at once
RetryableFailures == { "timeout", "connection_error", "server_error" }

AttemptOutcomes == { "ok", "bad_request" } \cup RetryableFailures

JudgmentInit ==
    /\ pc = "llm_invoke"
    /\ GraphIdle
    /\ call \in [node : JudgmentCalls, attempts : { << >> }]

\* one request of llm.invoke: the answer is returned, or the failure is
\* raised, or, for a retryable failure with retries left, the request is
\* sent again
llm_invoke_attempt ==
    /\ pc = "llm_invoke"
    /\ \E outcome \in AttemptOutcomes :
         /\ call' = [call EXCEPT !.attempts = Append(@, outcome)]
         /\ pc' = IF outcome = "ok" THEN "returned"
                  ELSE IF outcome \in RetryableFailures
                          /\ Len(call.attempts) < max_retries
                       THEN "llm_invoke"
                       ELSE "raised"
    /\ GraphUnchanged

JudgmentNext == llm_invoke_attempt

JudgmentSpec == JudgmentInit /\ [][JudgmentNext]_vars

\* ------------------------------------ knowledge_base_research on its own
KBDocuments ==
    UNION { [1..n -> { KBDoc(source, content) :
                         source \in { "d1", "d2" }, content \in { "c1", "c2" } }]
              : n \in 0..MaxDocuments }

\* the outcomes of KBOutcomes, with an exception inside the node and every
\* response of up to MaxDocuments documents
KBCallOutcomes ==
    { [kind |-> kind, documents |-> << >>] :
        kind \in { "tunnel_failed", "timeout", "error", "exception" } }
    \cup { [kind |-> "ok", documents |-> d] : d \in KBDocuments }

KBInit ==
    /\ pc = "knowledge_base_research"
    /\ GraphIdle
    /\ call \in [search_query : 1..MaxTotalQueries,
                  outcome : KBCallOutcomes,
                  returned : { NoResult }]

call_knowledge_base_research ==
    /\ pc = "knowledge_base_research"
    /\ call' = [call EXCEPT
                   !.returned = KBResearchReturn(call.search_query, call.outcome)]
    /\ pc' = "returned"
    /\ GraphUnchanged

KBNext == call_knowledge_base_research

KBSpec == KBInit /\ [][KBNext]_vars

\* ------------------------- SSHTunnelManager and VectorAPIClient, shared
\* self.ssh_process = None; also: nothing listens on local_port
NoProcess == 0

\* where a task calls the tunnel manager: ensure_tunnel in
\* knowledge_base_research, ensure_tunnel in query_documents, and
\* establish_tunnel after a ConnectionError
Sites == << "node", "client", "reconnect" >>

SiteIndex(site) == CHOOSE k \in DOMAIN Sites : Sites[k] = site

\* the ssh process task t starts at a site
Pid(t, site) == 3 * (t - 1) + SiteIndex(site)

\* a tunnel process that was started before the round
EarlierPid == 3 * MaxTasks + 1

\* what a POST through the tunnel can end in
PostOutcomes == { "ok", "Timeout", "ConnectionError", "RequestException" }

\* the request is sent again after a timeout as well
RetriesAfter_Timeout(outcome) == outcome \in { "ConnectionError", "Timeout" }

\* "except requests.ConnectionError": the one failure that leads to
\* establish_tunnel and a second POST
RetriesAfter(outcome) == outcome = "ConnectionError"

\* the dict query_documents returns
ClientResult(error, timeout) == [error |-> error, timeout |-> timeout]

TunnelInit ==
    /\ pc = "round"
    /\ GraphIdle
    /\ \E earlier \in { NoProcess, EarlierPid } :
         call = [procs |-> { earlier } \ { NoProcess },
                 listener |-> earlier,
                 ssh_process |-> NoProcess,
                 task |-> [t \in 1..MaxTasks |->
                             [pc |-> "ensure_tunnel",
                              site |-> "node",
                              posts |-> << >>,
                              reestablished |-> FALSE,
                              status |-> None,
                              result |-> NoResult]]]

\* is_tunnel_active: something accepts connections on local_port
is_tunnel_active == call.listener # NoProcess

\* task t gets the value of ensure_tunnel / establish_tunnel at its site
TunnelReturns(t, value, shared) ==
    LET me == call.task[t]
        next ==
            CASE me.site = "node" /\ value ->
                   [me EXCEPT !.site = "client", !.pc = "ensure_tunnel"]
              [] me.site = "node" /\ ~value ->
                   [me EXCEPT !.pc = "done", !.status = "failed"]
              [] me.site = "client" /\ ~value ->
                   [me EXCEPT !.pc = "done", !.status = "error",
                              !.result = ClientResult(TRUE, FALSE)]
              [] me.site = "reconnect" /\ ~value ->
                   [me EXCEPT !.pc = "done", !.status = "error",
                              !.result = ClientResult(TRUE, FALSE)]
              [] me.site = "reconnect" /\ value ->
                   [me EXCEPT !.pc = "post", !.reestablished = TRUE]
              [] OTHER -> [me EXCEPT !.pc = "post"]
    IN call' = [shared EXCEPT !.task[t] = next]

\* ensure_tunnel: establish_tunnel only when the tunnel is not active
ensure_tunnel(t) ==
    /\ call.task[t].pc = "ensure_tunnel"
    /\ IF is_tunnel_active
       THEN TunnelReturns(t, TRUE, call)
       ELSE call' = [call EXCEPT !.task[t].pc = "kill_existing_tunnels"]
    /\ UNCHANGED pc
    /\ GraphUnchanged

\* establish_tunnel, first part: pkill of every ssh process that forwards
\* local_port, whoever started it
kill_existing_tunnels(t) ==
    /\ call.task[t].pc = "kill_existing_tunnels"
    /\ call' = [call EXCEPT !.procs = { },
                            !.listener = NoProcess,
                            !.task[t].pc = "Popen"]
    /\ UNCHANGED pc
    /\ GraphUnchanged

\* establish_tunnel, second part: self.ssh_process = subprocess.Popen(ssh);
\* the process exits (no connection), or stays and listens on local_port if
\* the port is free
Popen(t) ==
    /\ call.task[t].pc = "Popen"
    /\ \E stays \in BOOLEAN :
         LET pid == Pid(t, call.task[t].site)
         IN call' = [call EXCEPT
                 !.ssh_process = pid,
                 !.procs = IF stays THEN @ \cup { pid } ELSE @,
                 !.listener = IF stays /\ @ = NoProcess THEN pid ELSE @,
                 !.task[t].pc = "poll"]
    /\ UNCHANGED pc
    /\ GraphUnchanged

\* establish_tunnel, last part: False if self.ssh_process has exited, else
\* is_tunnel_active()
poll(t) ==
    /\ call.task[t].pc = "poll"
    /\ TunnelReturns(t, call.ssh_process \in call.procs /\ is_tunnel_active,
                     call)
    /\ UNCHANGED pc
    /\ GraphUnchanged

\* query_documents: self.session.post and the handlers around it
post(t) ==
    /\ call.task[t].pc = "post"
    /\ \E outcome \in PostOutcomes :
         /\ ~is_tunnel_active => outcome = "ConnectionError"
         /\ LET me == call.task[t]
                first == me.posts = << >>
                sent == [me EXCEPT !.posts = Append(@, outcome)]
            IN call' = [call EXCEPT !.task[t] =
                   IF outcome = "ok"
                   THEN [sent EXCEPT !.pc = "done", !.status = "completed",
                                     !.result = ClientResult(FALSE, FALSE)]
                   ELSE IF first /\ RetriesAfter(outcome)
                   THEN [sent EXCEPT !.site = "reconnect",
                                     !.pc = "kill_existing_tunnels"]
                   ELSE IF first /\ outcome = "Timeout"
                   THEN [sent EXCEPT !.pc = "done", !.status = "timeout",
                                     !.result = ClientResult(TRUE, TRUE)]
                   ELSE [sent EXCEPT !.pc = "done", !.status = "error",
                                     !.result = ClientResult(TRUE, FALSE)]]
    /\ UNCHANGED pc
    /\ GraphUnchanged

TunnelNext ==
    \E t \in 1..MaxTasks :
        \/ ensure_tunnel(t)
        \/ kill_existing_tunnels(t)
        \/ Popen(t)
        \/ poll(t)
        \/ post(t)

TunnelSpec == TunnelInit /\ [][TunnelNext]_vars

\* ---------------------------------------------------------- resolve_urls
Urls == { "u1", "u2", "u3" }

UrlLists == UNION { [1..n -> Urls] : n \in 0..MaxUrls }

\* the short form without the id
ShortForm_NoId(id, idx) ==
    "https://vertexaisearch.cloud.google.com/id/" \o ToString(idx)

\* f"{prefix}{id}-{idx}"
ShortForm(id, idx) ==
    "https://vertexaisearch.cloud.google.com/id/"
        \o ToString(id) \o "-" \o ToString(idx)

\* "for idx, url in enumerate(urls)": a URL not yet in the map gets the
\* short form of its index
RECURSIVE ResolveLoop(_, _, _, _)
ResolveLoop(urls, idx, id, resolved_map) ==
    IF urls = << >> THEN resolved_map
    ELSE IF Head(urls) \notin DOMAIN resolved_map
         THEN ResolveLoop(Tail(urls), idx + 1, id,
                  resolved_map @@ (Head(urls) :> ShortForm(id, idx)))
         ELSE ResolveLoop(Tail(urls), idx + 1, id, resolved_map)

resolve_urls(urls_to_resolve, id) == ResolveLoop(urls_to_resolve, 0, id, << >>)

ResolveInit ==
    /\ pc = "resolve_urls"
    /\ GraphIdle
    /\ call \in [urls_to_resolve : UrlLists, id : 0..MaxId,
                  resolved_map : { NoResult }]

call_resolve_urls ==
    /\ pc = "resolve_urls"
    /\ call' = [call EXCEPT
                   !.resolved_map = resolve_urls(call.urls_to_resolve, call.id)]
    /\ pc' = "returned"
    /\ GraphUnchanged

ResolveNext == call_resolve_urls

ResolveSpec == ResolveInit /\ [][ResolveNext]_vars


\* ----------------------------------------------- insert_citation_markers
\* texts are sequences of characters, a link of a marker counts as one
Min(a, b) == IF a <= b THEN a ELSE b

\* text[:n] and text[n:] of Python, for n >= 0
SliceTo(text, n) == SubSeq(text, 1, Min(n, Len(text)))

SliceFrom(text, n) == SubSeq(text, Min(n, Len(text)) + 1, Len(text))

Texts == UNION { { [i \in 1..n |-> "c" \o ToString(i)] } : n \in 0..MaxTextLen }

\* the citation lists get_citations can return: an end_index inside the
\* text or past its end, no segment or one, in any order
CitationLists ==
    LET fields == [start_index : 0..1, end_index : 0..(MaxTextLen + 2),
                   cited : BOOLEAN]
        citation(raw, k) ==
            [start_index |-> raw.start_index,
             end_index |-> raw.end_index,
             segments |-> IF raw.cited
                          THEN << [label |-> "label" \o ToString(k),
                                   short_url |-> "url" \o ToString(k)] >>
                          ELSE << >>]
    IN UNION { { [k \in 1..n |-> citation(raw[k], k)] : raw \in [1..n -> fields] }
                 : n \in 0..MaxCitations }

\* marker_to_insert += f" [{segment['label']}]({segment['short_url']})"
RECURSIVE MarkerLoop(_, _)
MarkerLoop(segments, marker_to_insert) ==
    IF segments = << >> THEN marker_to_insert
    ELSE MarkerLoop(Tail(segments),
             marker_to_insert \o << " [", Head(segments).label, "](",
                                    Head(segments).short_url, ")" >>)

\* the sort without reverse=True
SortsBefore_Ascending(a, b) ==
    \/ a.end_index < b.end_index
    \/ a.end_index = b.end_index /\ a.start_index < b.start_index

\* a is put before b by the sort: key (end_index, start_index), reverse=True
SortsBefore(a, b) ==
    \/ a.end_index > b.end_index
    \/ a.end_index = b.end_index /\ a.start_index > b.start_index

\* sorted(...): citations with equal keys keep the order of the list
RECURSIVE PlaceSorted(_, _)
PlaceSorted(citation, sorted_citations) ==
    IF sorted_citations = << >> THEN << citation >>
    ELSE IF SortsBefore(citation, Head(sorted_citations))
         THEN << citation >> \o sorted_citations
         ELSE << Head(sorted_citations) >>
              \o PlaceSorted(citation, Tail(sorted_citations))

RECURSIVE Sorted(_, _)
Sorted(citations_list, sorted_citations) ==
    IF citations_list = << >> THEN sorted_citations
    ELSE Sorted(Tail(citations_list),
                PlaceSorted(Head(citations_list), sorted_citations))

\* "for citation_info in sorted_citations"
RECURSIVE InsertLoop(_, _)
InsertLoop(sorted_citations, modified_text) ==
    IF sorted_citations = << >> THEN modified_text
    ELSE LET end_idx == Head(sorted_citations).end_index
             marker_to_insert == MarkerLoop(Head(sorted_citations).segments, << >>)
         IN InsertLoop(Tail(sorted_citations),
                SliceTo(modified_text, end_idx) \o marker_to_insert
                    \o SliceFrom(modified_text, end_idx))

insert_citation_markers(text, citations_list) ==
    InsertLoop(Sorted(citations_list, << >>), text)

InsertInit ==
    /\ pc = "insert_citation_markers"
    /\ GraphIdle
    /\ call \in [text : Texts, citations_list : CitationLists,
                 modified_text : { NoResult }]

call_insert_citation_markers ==
    /\ pc = "insert_citation_markers"
    /\ call' = [call EXCEPT
                   !.modified_text =
                       insert_citation_markers(call.text, call.citations_list)]
    /\ pc' = "returned"
    /\ GraphUnchanged

InsertNext == call_insert_citation_markers

InsertSpec == InsertInit /\ [][InsertNext]_vars

\* ----------------------------------------- validate_citations_in_content
\* contents are sequences of words, a citation marker is one word
\* the words matched by r'\[(?:KB-\d+|\d+|#\d+)\]'
CitationPattern ==
    UNION { { "[KB-" \o ToString(n) \o "]", "[" \o ToString(n) \o "]",
              "[#" \o ToString(n) \o "]" } : n \in 0..9 }

\* plain words, markers of the three forms, and a bracketed word that is
\* no marker
ContentWords ==
    { "word", "[a]", "[#1]", WebShortUrl(0), WebShortUrl(1), KBShortUrl(0) }

Contents == UNION { [1..n -> ContentWords] : n \in 0..MaxContentLen }

\* sources as the retrieval tasks write them, and one without a short_url
GatheredSources ==
    { Source("https://a", WebShortUrl(0)), Source("https://b", WebShortUrl(1)),
      Source("doc1", KBShortUrl(0)), [value |-> "doc2"] }

SourceLists == UNION { [1..n -> GatheredSources] : n \in 0..MaxSources }

\* re.findall(citation_pattern, content)
FoundCitations(content) ==
    SelectSeq(content, LAMBDA word : word \in CitationPattern)

\* source.get("short_url", "")
GetShortUrl(source) ==
    IF "short_url" \in DOMAIN source THEN source.short_url ELSE ""

\* the markers loop without "if marker:"
AvailableMarkers_AddEmpty(sources) ==
    { GetShortUrl(sources[i]) : i \in DOMAIN sources }

AvailableMarkers(sources) ==
    { GetShortUrl(sources[i]) : i \in DOMAIN sources } \ { "" }

\* missing_sources is a list made from a set: its order is not determined,
\* it is kept as the set of its entries
validate_citations_in_content(content, sources) ==
    LET found_citations == FoundCitations(content)
        available_markers == AvailableMarkers(sources)
        cited_markers ==
            { found_citations[i] : i \in DOMAIN found_citations }
    IN [valid_citations |->
            SelectSeq(found_citations,
                      LAMBDA citation : citation \in available_markers),
        invalid_citations |->
            SelectSeq(found_citations,
                      LAMBDA citation : citation \notin available_markers),
        missing_sources |->
            { m \in available_markers : m \notin cited_markers }]

ValidateInit ==
    /\ pc = "validate_citations_in_content"
    /\ GraphIdle
    /\ call \in [content : Contents, sources_gathered : SourceLists,
                 validation : { NoResult }]

call_validate_citations_in_content ==
    /\ pc = "validate_citations_in_content"
    /\ call' = [call EXCEPT
                   !.validation =
                       validate_citations_in_content(call.content,
                                                     call.sources_gathered)]
    /\ pc' = "returned"
    /\ GraphUnchanged

ValidateNext == call_validate_citations_in_content

ValidateSpec == ValidateInit /\ [][ValidateNext]_vars

\* ------------------------------------------------------------- properties
\* the round budget of the run: the state's max_research_loops, or the
\* configured one when the state gives none
RoundBudget ==
    IF max_research_loops = << >> THEN configurable_max_research_loops
    ELSE max_research_loops[1]

Range(seq) == { seq[i] : i \in DOMAIN seq }

\* the citation markers a retrieval task can write
MarkerTokens ==
    LET indexes == UNION { DOMAIN r : r \in WebResponses \cup KBResponses }
    IN { WebShortUrl(i - 1) : i \in indexes }
       \cup { KBShortUrl(i - 1) : i \in indexes }

MarkersIn(text) == Range(text) \cap MarkerTokens

ShortUrlsOf(sources) == { s.short_url : s \in Range(sources) }

\* C1: a run never stops after a reflection without a final answer: when
\* the graph has no node left to run (END), finalize_answer has emitted its
\* message.
C1_StoppedRunHasAnswer ==
    pc = "END" => answer = "AIMessage"

\* C2: the research rounds of a run (fan-outs, and the reflections that
\* close them) never number more than maxRounds + 1.
C2_RoundsWithinBudget ==
    /\ rounds_started <= RoundBudget + 1
    /\ reflections_run <= RoundBudget + 1

\* a run the budget stopped after more than one round
C2_Witness ==
    /\ pc = "finalize_answer"
    /\ ~is_sufficient
    /\ rounds_started = 2
    /\ reflections_run = 2

\* C3: after a reflection the run is at finalize_answer (or past it) exactly
\* when the verdict is sufficient or the loop count has reached the budget,
\* and is in another research round in every other case.
C3_StopsOnlyOnVerdictOrBudget ==
    (reflections_run > 0 /\ pc # "failed") =>
        IF is_sufficient \/ research_loop_count >= RoundBudget
        THEN pc \in { "finalize_answer", "END" }
        ELSE pc \in { "research", "reflection" }

\* C4: a run never aborts because retrieval failed: only a failed judgment
\* call aborts it.
C4_RetrievalFailureNeverAborts ==
    pc = "failed" => failure \in JudgmentCalls

\* the source entries discovered so far: those the finished tasks of the
\* round in execution return and those already gathered
DiscoveredSources ==
    Range(sources_gathered)
    \cup UNION { Range(results[t].sources_gathered) :
                   t \in { u \in DOMAIN results : results[u] # NoResult } }

\* C5: a canonical source value carries one short_url in the whole run:
\* whenever a task or a later round discovers it again, the entry has the
\* short_url of the first one.
C5_OneShortIdPerValue ==
    \A a, b \in DiscoveredSources :
        a.value = b.value => a.short_url = b.short_url

C8_LoopCountIsReflections ==
    research_loop_count = reflections_run

\* the second reflection of a run has returned
C8_Witness ==
    /\ reflections_run = 2
    /\ research_loop_count = 2

Backends == { "web_research", "knowledge_base_research" }

\* C10: a round in execution has exactly one task per query of the round
\* and backend: 2*N tasks for N queries.
C10_OneTaskPerQueryAndBackend ==
    pc = "research" =>
        /\ Len(tasks) = 2 * Len(round_queries)
        /\ \A q \in Range(round_queries), node \in Backends :
             Cardinality({ t \in DOMAIN tasks :
                             /\ tasks[t].search_query = q
                             /\ tasks[t].node = node }) = 1

\* a follow-up round in execution
C10_Witness ==
    /\ pc = "research"
    /\ rounds_started = 2
    /\ round_queries = follow_up_queries
    /\ Len(tasks) = 2

\* an initial round of two queries in execution
C10_WitnessInitial ==
    /\ pc = "research"
    /\ rounds_started = 1
    /\ Len(round_queries) = 2
    /\ Len(tasks) = 4

NoDuplicates(seq) ==
    \A i, j \in DOMAIN seq : i # j => seq[i] # seq[j]

\* C11: the ids given to the retrieval tasks of a run are pairwise distinct,
\* within a round and across rounds: a follow-up round continues where the
\* previous one stopped, so the ids issued so far are 0, 1, 2, ... in order.
C11_TaskIdsUnique ==
    /\ NoDuplicates(issued_ids)
    /\ \A k \in DOMAIN issued_ids : issued_ids[k] = k - 1

\* a follow-up round has been issued after an initial round of one query
C11_Witness ==
    /\ rounds_started = 2
    /\ pc = "research"
    /\ Len(issued_ids) = 4
    /\ tasks[1].id = 2

\* C12: once a judgment call (generate_query, reflection, finalize_answer)
\* has failed the run is aborted, no final AIMessage has been emitted and
\* the conversation holds no answer.
C12_FailedJudgmentAborts ==
    failure \in JudgmentCalls =>
        /\ pc = "failed"
        /\ answer = None
        /\ \A k \in DOMAIN messages : messages[k].type # "ai"

\* answer synthesis failed after findings had been gathered
C12_Witness ==
    /\ pc = "failed"
    /\ failure = "finalize_answer"
    /\ web_research_result # << >>
    /\ answer = None

extract_pubmed_id_from_kb_path(kb_path) ==
    IF kb_path = "d1" THEN "22284798" ELSE ""

format_kb_reference(kb_path) ==
    LET pubmed_id == extract_pubmed_id_from_kb_path(kb_path)
    IN IF pubmed_id # "" THEN "https://pubmed.ncbi.nlm.nih.gov/" \o pubmed_id \o "/"
       ELSE kb_path

\* short_url.startswith("[KB-")
IsKBShortUrl(short_url) ==
    short_url \in { KBShortUrl(i - 1) : i \in UNION { DOMAIN r : r \in KBResponses } }

\* the lines of the references section: marker and what it refers to
create_references_section(sources) ==
    [idx \in DOMAIN sources |->
        [marker |-> "[" \o ToString(idx) \o "]",
         target |-> IF IsKBShortUrl(sources[idx].short_url)
                    THEN format_kb_reference(sources[idx].value)
                    ELSE sources[idx].value]]

\* the lines of the source list of the prompt: marker and source
format_research_citations(sources) ==
    [idx \in DOMAIN sources |->
        [marker |-> "[#" \o ToString(idx) \o "]",
         target |-> sources[idx].value]]

\* C14: the markers of the reference list and of the citation list built
\* from sources_gathered are exactly the short_urls the retrieval tasks
\* gave the sources.
C14_ReferenceMarkersAreShortUrls ==
    /\ { r.marker : r \in Range(create_references_section(sources_gathered)) }
           = ShortUrlsOf(sources_gathered)
    /\ { r.marker : r \in Range(format_research_citations(sources_gathered)) }
           = ShortUrlsOf(sources_gathered)

\* C15: a run moves generate_query -> research -> reflection ->
\* (research | finalize_answer) -> END, or aborts: generate_query is never
\* entered again, reflection is left only for another round or for
\* finalize_answer, and nothing runs once the run is over.
C15_NodeOrder ==
    [][/\ pc' # "generate_query"
       /\ pc = "generate_query" => pc' \in { "research", "failed" }
       /\ pc = "research" => pc' \in { "research", "reflection", "failed" }
       /\ pc = "reflection" => pc' \in { "research", "finalize_answer", "failed" }
       /\ pc = "finalize_answer" => pc' \in { "END", "failed" }
       /\ pc \notin { "END", "failed" }]_vars

\* the messages get_research_topic has a line for
ChatMessages(msgs) ==
    SelectSeq(msgs, LAMBDA m : m.type \in { "human", "ai" })

RolePrefix(type) == IF type = "human" THEN "User: " ELSE "Assistant: "

\* topic is one line "prefix content \n" per message of msgs, in order
IsLinePerMessage(text, msgs) ==
    /\ Len(text) = 3 * Len(msgs)
    /\ \A k \in DOMAIN msgs :
         /\ text[3 * k - 2] \in { "User: ", "Assistant: " }
         /\ text[3 * k - 1] = msgs[k].content
         /\ text[3 * k] = "\n"

\* C16 as stated: the topic of a one-message history is the content of the
\* message, and of any other history one prefixed line per message.
C16_TopicOfEveryMessage ==
    pc = "returned" =>
        IF Len(messages) = 1 THEN topic = << messages[1].content >>
        ELSE IsLinePerMessage(topic, messages)

\* C16: the topic of a one-message history is the content of the message;
\* of any other history it is, in chronological order, one line per
\* HumanMessage ("User: ") and AIMessage ("Assistant: "), and nothing for a
\* message of another class.
C16_TopicOfChatMessages ==
    pc = "returned" =>
        IF Len(messages) = 1 THEN topic = << messages[1].content >>
        ELSE /\ IsLinePerMessage(topic, ChatMessages(messages))
             /\ \A k \in DOMAIN ChatMessages(messages) :
                  topic[3 * k - 2] = RolePrefix(ChatMessages(messages)[k].type)

\* a history of a question, a system message and an answer
C16_Witness ==
    /\ pc = "returned"
    /\ Len(messages) = 3
    /\ messages[1] = Message("human", "a")
    /\ messages[2].type = "system"
    /\ messages[3] = Message("ai", "b")
    /\ topic = << "User: ", "a", "\n", "Assistant: ", "b", "\n" >>

\* C17: two different canonical values never carry the same short_url.
C17_OneValuePerShortId ==
    \A a, b \in DiscoveredSources :
        a.short_url = b.short_url => a.value = b.value

\* C18 as stated: the initial round issues initial_search_query_count
\* queries, with the ids 0 .. 2 * count - 1.
C18_InitialRoundIssuesCount ==
    rounds_started >= 1 =>
        /\ Len(query_list) = initial_search_query_count
        /\ \A k \in 1..(2 * initial_search_query_count) :
             k \in DOMAIN issued_ids /\ issued_ids[k] = k - 1

\* C18: the initial round issues one query per entry of the list the query
\* generator returned, and its tasks have the ids 0 .. 2 * N - 1, each once.
C18_InitialRoundIds ==
    rounds_started >= 1 =>
        /\ Len(issued_ids) >= 2 * Len(query_list)
        /\ \A k \in 1..(2 * Len(query_list)) : issued_ids[k] = k - 1
        /\ rounds_started = 1 =>
               /\ Len(issued_ids) = 2 * Len(query_list)
               /\ pc = "research" => IdsOf(tasks) = issued_ids

\* an initial round of two queries in execution
C18_Witness ==
    /\ rounds_started = 1
    /\ pc = "research"
    /\ Len(query_list) = 2
    /\ IdsOf(tasks) = << 0, 1, 2, 3 >>

\* C19: reflection is entered only from a round all of whose tasks have
\* returned, and it runs once per round: while a round executes or awaits
\* its reflection, one reflection fewer than rounds has run, and after the
\* reflection as many.
C19_ReflectionAfterAllTasks ==
    /\ [](/\ pc \in { "research", "reflection" } =>
                reflections_run = rounds_started - 1
          /\ pc \in { "finalize_answer", "END" } =>
                reflections_run = rounds_started)
    /\ [][(pc # "reflection" /\ pc' = "reflection") =>
              /\ pc = "research"
              /\ tasks # << >>
              /\ \A t \in DOMAIN tasks : results[t] # NoResult]_vars

\* the reflection of a follow-up round is due
C19_Witness ==
    /\ pc = "reflection"
    /\ rounds_started = 2
    /\ reflections_run = 1
    /\ Len(web_research_result) = 4

\* C20: no retrieval task raises to the graph, and a knowledge-base task
\* that failed returns one placeholder finding and no source.
C20_FailedTaskReturnsPlaceholder ==
    /\ failure \notin Backends
    /\ \A t \in DOMAIN tasks :
         (/\ results[t] # NoResult
          /\ tasks[t].node = "knowledge_base_research"
          /\ results[t].kb_search_status \in { "failed", "timeout", "error" }) =>
             /\ results[t].sources_gathered = << >>
             /\ Len(results[t].web_research_result) = 1

\* the first token of every finding knowledge_base_research returns
KBFindingHeads ==
    { "SSH tunnel connection failed",
      "Vector database search timed out after 30 seconds",
      "Knowledge base search error",
      "No relevant documents found in knowledge base for this query.",
      "Knowledge Base Search Results" }

IsKBFinding(finding) == finding # << >> /\ finding[1] \in KBFindingHeads

IsPrefix(a, b) == Len(a) <= Len(b) /\ SubSeq(b, 1, Len(a)) = a

\* C22: search_query and web_research_result only grow at their end, so
\* the entries of a round stay before those of every later round, and the
\* tasks of a round are created only when no round is in execution.
C22_AppendOnlyAcrossRounds ==
    [][/\ IsPrefix(search_query, search_query')
       /\ IsPrefix(web_research_result, web_research_result')
       /\ (tasks' # tasks /\ tasks' # << >>) =>
              /\ tasks = << >>
              /\ results = << >>
              /\ Len(web_research_result) = Len(issued_ids)]_vars

\* the second round has been appended after the first
C22_Witness ==
    /\ pc = "reflection"
    /\ rounds_started = 2
    /\ reflections_run = 1
    /\ search_query = << 1, 1, 2, 2 >>
    /\ Len(web_research_result) = 4

\* C26: once a judgment call has computed the research topic, every later
\* one computes the same, and the message history does not change while no
\* answer has been produced.
C26_TopicConstant ==
    [][/\ topic # << >> => topic' = topic
       /\ answer' = None => messages' = messages]_vars

\* generate_query, two reflections and finalize_answer computed the topic
C26_Witness ==
    /\ pc = "END"
    /\ answer = "AIMessage"
    /\ reflections_run = 2
    /\ topic = << "q" >>
    /\ Len(messages) = 2

\* C27: every returned task update has one search_query entry and one
\* finding; when reflection is due both accumulated lists hold one entry
\* per task issued so far, and after a reflection number_of_ran_queries is
\* that number.
C27_OneEntryPerTask ==
    /\ \A t \in DOMAIN results :
         results[t] # NoResult =>
             /\ Len(results[t].search_query) = 1
             /\ Len(results[t].web_research_result) = 1
    /\ pc = "reflection" =>
         /\ Len(search_query) = Len(issued_ids)
         /\ Len(web_research_result) = Len(issued_ids)
    /\ (reflections_run >= 1 /\ pc \in { "research", "finalize_answer", "END" }) =>
         /\ number_of_ran_queries = Len(search_query)
         /\ number_of_ran_queries = Len(web_research_result)

\* the second reflection reported four tasks
C27_Witness ==
    /\ pc = "finalize_answer"
    /\ reflections_run = 2
    /\ number_of_ran_queries = 4
    /\ Len(issued_ids) = 4

\* C28: the budget that decides after a reflection is max_research_loops of
\* the state when the state has one (0 included), and the configured one
\* otherwise: an unsatisfied verdict leads to finalize_answer only with the
\* loop count at that budget, and to another round only below it.
C28_BudgetIsStateValueUnlessNone ==
    LET budget == IF max_research_loops = << >>
                  THEN configurable_max_research_loops
                  ELSE max_research_loops[1]
    IN /\ (pc = "finalize_answer" /\ ~is_sufficient) =>
              research_loop_count >= budget
       /\ (pc = "research" /\ rounds_started >= 2) =>
              research_loop_count < budget

\* a state budget of 1 stops a run that the configured budget would continue
C28_Witness ==
    /\ max_research_loops = << 1 >>
    /\ configurable_max_research_loops = MaxLoops
    /\ pc = "finalize_answer"
    /\ ~is_sufficient
    /\ follow_up_queries # << >>
    /\ research_loop_count = 1

\* C23: a judgment call is attempted once: a failed request is raised to
\* the run and never sent again.
C23_JudgmentCallsAttemptedOnce ==
    /\ Len(call.attempts) <= 1
    /\ (call.attempts # << >> /\ call.attempts[1] # "ok") => pc = "raised"

\* the status the claim gives every outcome of a knowledge-base task
StatusOfOutcome(kind) ==
    CASE kind = "tunnel_failed" -> "failed"
      [] kind = "timeout" -> "timeout"
      [] kind \in { "error", "exception" } -> "error"
      [] OTHER -> "completed"

\* C29: knowledge_base_research returns 'failed' when the tunnel cannot be
\* ensured, 'timeout' for a client timeout, 'error' for another client
\* error or an exception and 'completed' otherwise; it returns sources only
\* when completed with documents, and then one per document, in order,
\* with the markers [KB-1]..[KB-n].
C29_OutcomeClassified ==
    pc = "returned" =>
        LET update == call.returned
            documents == call.outcome.documents
        IN /\ update.kb_search_status = StatusOfOutcome(call.outcome.kind)
           /\ update.sources_gathered # << >> =>
                  /\ update.kb_search_status = "completed"
                  /\ documents # << >>
           /\ (call.outcome.kind = "ok" /\ documents # << >>) =>
                  /\ Len(update.sources_gathered) = Len(documents)
                  /\ \A n \in DOMAIN documents :
                       /\ update.sources_gathered[n].value = documents[n].source
                       /\ update.sources_gathered[n].short_url
                              = "[KB-" \o ToString(n) \o "]"

\* a response of three documents, two of them from the same path
C29_Witness ==
    /\ pc = "returned"
    /\ call.outcome.kind = "ok"
    /\ Len(call.outcome.documents) = 3
    /\ call.outcome.documents[1].source = call.outcome.documents[3].source
    /\ call.returned.kb_search_status = "completed"
    /\ call.returned.sources_gathered[3].short_url = "[KB-3]"

\* the index (from 0) at which url occurs first in urls
FirstIndex(urls, url) ==
    (CHOOSE i \in DOMAIN urls :
        urls[i] = url /\ \A j \in 1..(i - 1) : urls[j] # url) - 1

\* C30: the map resolve_urls returns has one key per distinct URL of the
\* input, gives every URL the short form of the index of its first
\* occurrence, gives distinct URLs distinct short forms, and shares no short
\* form with the map of a call with another id.
C30_ResolveUrls ==
    pc = "returned" =>
        LET urls == call.urls_to_resolve
            resolved_map == call.resolved_map
        IN /\ DOMAIN resolved_map = Range(urls)
           /\ \A url \in Range(urls) :
                resolved_map[url]
                    = "https://vertexaisearch.cloud.google.com/id/"
                      \o ToString(call.id) \o "-"
                      \o ToString(FirstIndex(urls, url))
           /\ \A a, b \in Range(urls) :
                a # b => resolved_map[a] # resolved_map[b]
           /\ \A other \in UrlLists, id \in 0..MaxId :
                id # call.id =>
                    \A a \in Range(urls), b \in Range(other) :
                        resolved_map[a] # resolve_urls(other, id)[b]

\* a list in which the first URL occurs again after another one
C30_Witness ==
    /\ pc = "returned"
    /\ call.urls_to_resolve = << "u1", "u2", "u1" >>
    /\ call.id = 1
    /\ call.resolved_map["u1"] = "https://vertexaisearch.cloud.google.com/id/1-0"
    /\ call.resolved_map["u2"] = "https://vertexaisearch.cloud.google.com/id/1-1"

\* C24: whatever the interleaving of the tasks that share the tunnel
\* manager, at most one tunnel process is live, and a task that was told
\* the tunnel is up and is about to send its request still has a tunnel:
\* no sibling has killed it.
C24_TunnelSafeUnderConcurrency ==
    /\ Cardinality(call.procs) <= 1
    /\ \A t \in DOMAIN call.task :
         call.task[t].pc = "post" => is_tunnel_active

\* C25: a call of query_documents sends at most two POST requests, the
\* second only after a ConnectionError on the first and an establish_tunnel
\* that returned True; a timeout on the first request ends the call; and a
\* call whose last request failed returns an error value, with timeout set
\* exactly for a timeout on the first request.
C25_BoundedRetry ==
    \A t \in DOMAIN call.task :
        LET me == call.task[t]
        IN /\ Len(me.posts) <= 2
           /\ Len(me.posts) = 2 =>
                  /\ me.posts[1] = "ConnectionError"
                  /\ me.reestablished
           /\ (me.posts # << >> /\ me.posts[1] = "Timeout") =>
                  /\ Len(me.posts) = 1
                  /\ me.pc = "done"
                  /\ me.result = [error |-> TRUE, timeout |-> TRUE]
           /\ (me.posts # << >> /\ me.posts[Len(me.posts)] # "ok"
                 /\ me.pc = "done") =>
                  /\ me.result # NoResult
                  /\ me.result.error
                  /\ me.result.timeout <=> me.posts = << "Timeout" >>
           /\ (me.posts # << >> /\ me.posts[Len(me.posts)] = "ok") =>
                  /\ me.pc = "done"
                  /\ me.result = [error |-> FALSE, timeout |-> FALSE]

\* a call that sent its request again after the tunnel was re-established,
\* and one that ended with a failed second request
C25_Witness ==
    /\ call.task[1].pc = "done"
    /\ call.task[1].posts = << "ConnectionError", "ok" >>
    /\ call.task[1].reestablished
    /\ call.task[2].pc = "done"
    /\ call.task[2].posts = << "ConnectionError", "Timeout" >>
    /\ call.task[2].result = [error |-> TRUE, timeout |-> FALSE]

\* the characters of a text that belong to the original text
TextOf(text) ==
    SelectSeq(text, LAMBDA c : c \in UNION { Range(t) : t \in Texts })

MarkerOf(citation) == MarkerLoop(citation.segments, << >>)

\* marker stands in text from position i on
OccursAt(text, marker, i) ==
    /\ i + Len(marker) - 1 <= Len(text)
    /\ SubSeq(text, i, i + Len(marker) - 1) = marker

\* the marker of every citation stands, whole, in modified_text right after
\* text[:end_index] and markers of citations with a smaller or equal
\* end_index, and without the markers modified_text is text
MarkersAtEndIndex(text, citations_list, modified_text) ==
    /\ TextOf(modified_text) = text
    /\ \A k \in DOMAIN citations_list :
         MarkerOf(citations_list[k]) # << >> =>
             \E i \in DOMAIN modified_text :
                 /\ OccursAt(modified_text, MarkerOf(citations_list[k]), i)
                 /\ TextOf(SubSeq(modified_text, 1, i - 1))
                        = SliceTo(text, citations_list[k].end_index)
                 /\ \A j \in DOMAIN citations_list :
                      (/\ MarkerOf(citations_list[j]) # << >>
                       /\ \E p \in 1..(i - 1) :
                            OccursAt(modified_text, MarkerOf(citations_list[j]), p))
                      => citations_list[j].end_index
                             <= citations_list[k].end_index

\* C31 as stated: for every citation list the markers stand at their
\* end_index and deleting them gives the original text.
C31_MarkersAtEndIndexAnyList ==
    pc = "returned" =>
        MarkersAtEndIndex(call.text, call.citations_list, call.modified_text)

\* C31: for every citation list whose end_index values lie within the text
\* (0 <= end_index <= len(text)), in any order, the markers stand at their
\* end_index and deleting them gives the original text.
C31_MarkersAtEndIndexInText ==
    (/\ pc = "returned"
     /\ \A k \in DOMAIN call.citations_list :
          call.citations_list[k].end_index <= Len(call.text)) =>
        MarkersAtEndIndex(call.text, call.citations_list, call.modified_text)

\* two citations given in ascending order, one inside the text and one at
\* its end
C31_Witness ==
    /\ pc = "returned"
    /\ Len(call.text) = 2
    /\ Len(call.citations_list) = 2
    /\ call.citations_list[1].end_index = 1
    /\ call.citations_list[2].end_index = 2
    /\ call.modified_text
         = << "c1", " [", "label1", "](", "url1", ")",
              "c2", " [", "label2", "](", "url2", ")" >>

\* number of occurrences of word in text
Occurrences(text, word) == Cardinality({ i \in DOMAIN text : text[i] = word })

====
